---- MODULE Spec2Model ----
(***************************************************************************)
(* A model of the flight-offer aggregation engine of src/main.py:           *)
(* date-pair generation, the pair loop of run_search_core with its          *)
(* provider calls, offer mapping, filtering, airline balancing, and the     *)
(* in-memory job registry with its background runner and its poll handler.  *)
(*                                                                          *)
(* Dates are day numbers, prices are whole currency units, time is in       *)
(* seconds.  An Optional value is <<>> (None) or <<v>>.                     *)
(***************************************************************************)
EXTENDS Integers, Sequences, FiniteSets, TLC

\* ------------------------------------------------------------- bounds ----

\* Number of offers the provider holds for a date pair with a large supply.
BulkSize == 100
\* Largest group of one airline handed to balance_airlines on its own.
MaxGroupA == 22
\* Largest second airline group handed to balance_airlines on its own.
MaxGroupB == 2
\* Length of the offer sequences whose permutations are compared.
MaxPermLen == 3
\* Days of the travel window, longest stay and largest max_pairs tried.
MaxDay == 5
MaxStay == 3
MaxPairs == 6
\* Largest number of stops of the flights given to the filters.
MaxStops == 5

\* ---------------------------------------------------- program constants --

HARD_MAX_OFFERS_PER_PAIR == 300
HARD_MAX_OFFERS_TOTAL == 15000
HARD_MAX_DATE_PAIRS == 60
DEFAULT_OFFERS_PER_PAIR == 50
DEFAULT_OFFERS_TOTAL == 5000
DEFAULT_DATE_PAIRS == 20
FLOOR_OFFERS_PER_PAIR == 10
FLOOR_OFFERS_TOTAL == 100
FLOOR_DATE_PAIRS == 1
SOFT_CAP_MIN == 20
SOFT_CAP_MAX == 200
SOFT_CAP_SLACK == 5
PROVIDER_PAGE_MAX == 300
CALL_TIMEOUT == 30

\* ------------------------------------------------------------ helpers ----

None == <<>>
Some(v) == <<v>>
IsNone(x) == x = <<>>
Val(x) == x[1]

Min(a, b) == IF a <= b THEN a ELSE b
Max(a, b) == IF a >= b THEN a ELSE b

Take(s, n) == SubSeq(s, 1, Min(Max(n, 0), Len(s)))

\* The function f on 1..n as a sequence (a tuple, computed once).
AsSeq(f, n) == SubSeq(f, 1, n)

\* x or d, for an Optional[int] x: None and 0 are both falsy.
OrDefault(x, d) == IF IsNone(x) \/ Val(x) = 0 THEN d ELSE Val(x)

\* Does s[i] come before s[j] when s is sorted by price?  Equal prices keep
\* their order: list.sort is stable.
PriceBefore(s, i, j) ==
  s[i].price < s[j].price \/ (s[i].price = s[j].price /\ i < j)

\* list.sort(key=lambda x: x.price), by the place each element ends at.
SortByPrice(s) ==
  LET n == Len(s)
      place == AsSeq([i \in 1..n |->
                        Cardinality({j \in 1..n : PriceBefore(s, j, i)}) + 1], n)
      from == AsSeq([r \in 1..n |-> CHOOSE i \in 1..n : place[i] = r], n)
  IN AsSeq([r \in 1..n |-> s[from[r]]], n)

\* [o for o in s if Keep(o)]
Filter(s, Keep(_)) == SelectSeq(s, Keep)

\* ------------------------------------------------ generate_date_pairs ----

\* A generator that lets the return date leave the window.
FitsWindow_Always(ret, latest) == TRUE

\* if ret <= params.latestDeparture
FitsWindow(ret, latest) == ret <= latest

\* A generator whose inner loop never breaks.
PairsFull_Never(n, max_pairs) == FALSE

\* if len(pairs) >= max_pairs: break
PairsFull(n, max_pairs) == n >= max_pairs

RECURSIVE StayLoop(_, _, _, _, _, _)
StayLoop(pairs, current, stay, max_stay, latest, max_pairs) ==
  IF stay > max_stay THEN pairs
  ELSE LET ret == current + stay IN
       IF FitsWindow(ret, latest)
       THEN LET p2 == Append(pairs, <<current, ret>>) IN
            IF PairsFull(Len(p2), max_pairs) THEN p2
            ELSE StayLoop(p2, current, stay + 1, max_stay, latest, max_pairs)
       ELSE StayLoop(pairs, current, stay + 1, max_stay, latest, max_pairs)

RECURSIVE DateLoop(_, _, _, _, _, _)
DateLoop(pairs, current, min_stay, max_stay, latest, max_pairs) ==
  IF current <= latest /\ Len(pairs) < max_pairs
  THEN DateLoop(StayLoop(pairs, current, min_stay, max_stay, latest, max_pairs),
                current + 1, min_stay, max_stay, latest, max_pairs)
  ELSE pairs

\* A generator that takes the stay lengths as the request gives them.
generate_date_pairs_Raw(p, max_pairs) ==
  DateLoop(<<>>, p.earliestDeparture, p.minStayDays, p.maxStayDays,
           p.latestDeparture, max_pairs)

generate_date_pairs(p, max_pairs) ==
  LET min_stay == Max(1, p.minStayDays)
      max_stay == Max(min_stay, p.maxStayDays)
  IN DateLoop(<<>>, p.earliestDeparture, min_stay, max_stay,
              p.latestDeparture, max_pairs)

\* ------------------------------------------------------ offer mapping ----

\* The airline directory (module airlines): code -> display name.
KNOWN_AIRLINES == {"AA"}
AIRLINE_NAMES == [c \in KNOWN_AIRLINES |-> "Alpha Air"]

\* A provider amount is a decimal string, absent, or text that is no number.
Num(n) == [tag |-> "num", val |-> n]
AbsentAmount == [tag |-> "absent", val |-> 0]
BadAmount == [tag |-> "bad", val |-> 0]

\* float(offer.get("total_amount", 0)): absent gives 0, a non-number raises.
ParsePrice(a) ==
  CASE a.tag = "num" -> [ok |-> TRUE, val |-> a.val]
    [] a.tag = "absent" -> [ok |-> TRUE, val |-> 0]
    [] OTHER -> [ok |-> FALSE, val |-> 0]

\* A timestamp is a minute count, or BadTs when missing or not ISO text.
BadTs == -1
ParseTs(t) == [ok |-> t >= 0, val |-> t]

\* The try block around datetime.fromisoformat: any failure gives 0.
DurationMinutes(offer) ==
  IF offer.nseg = 0 THEN 0
  ELSE LET d == ParseTs(offer.dep_at)
           a == ParseTs(offer.arr_at)
       IN IF d.ok /\ a.ok THEN a.val - d.val ELSE 0

AirlineName(offer) ==
  IF offer.owner_code \in KNOWN_AIRLINES THEN AIRLINE_NAMES[offer.owner_code]
  ELSE IF offer.owner_name # "" THEN offer.owner_name
  ELSE IF offer.owner_code # "" THEN offer.owner_code
  ELSE "Airline"

\* Returns [ok, option]; ok = FALSE when the mapping raises.
map_duffel_offer_to_option(offer, dep, ret) ==
  LET price == ParsePrice(offer.total_amount) IN
  [ok |-> price.ok,
   option |-> [id |-> offer.id,
               airline |-> AirlineName(offer),
               airlineCode |-> offer.owner_code,
               price |-> price.val,
               departureDate |-> dep,
               returnDate |-> ret,
               stops |-> Max(0, offer.nseg - 1),
               durationMinutes |-> DurationMinutes(offer)]]

\* mapped = [map_duffel_offer_to_option(offer, dep, ret) for ... in collected]
MapAll(collected) ==
  LET m == AsSeq([i \in 1..Len(collected) |->
                    map_duffel_offer_to_option(collected[i].offer, collected[i].dep,
                                               collected[i].ret)], Len(collected))
  IN [ok |-> \A i \in 1..Len(collected) : m[i].ok,
      options |-> AsSeq([i \in 1..Len(collected) |-> m[i].option], Len(collected))]

\* ------------------------------------------------------ apply_filters ----

\* A price filter that takes every given ceiling, also zero or below.
PriceKept_AnyCeiling(o, p) ==
  IF ~IsNone(p.maxPrice) THEN o.price <= Val(p.maxPrice) ELSE TRUE

PriceKept(o, p) ==
  IF ~IsNone(p.maxPrice) /\ Val(p.maxPrice) > 0
  THEN o.price <= Val(p.maxPrice) ELSE TRUE

\* A stops filter without the "3 means 3 or more" rule.
StopsKept_Exact(o, p) ==
  IF ~IsNone(p.stopsFilter) /\ Val(p.stopsFilter) # {}
  THEN o.stops \in Val(p.stopsFilter) ELSE TRUE

StopsKept(o, p) ==
  IF ~IsNone(p.stopsFilter) /\ Val(p.stopsFilter) # {}
  THEN IF 3 \in Val(p.stopsFilter)
       THEN o.stops \in Val(p.stopsFilter) \/ o.stops >= 3
       ELSE o.stops \in Val(p.stopsFilter)
  ELSE TRUE

apply_filters(options, p) ==
  LET KeepPrice(o) == PriceKept(o, p)
      KeepStops(o) == StopsKept(o, p)
  IN SortByPrice(Filter(Filter(options, KeepPrice), KeepStops))

\* --------------------------------------------------- balance_airlines ----

\* key = o.airlineCode or o.airline or "Unknown"
GroupKey(o) ==
  IF o.airlineCode # "" THEN o.airlineCode
  ELSE IF o.airline # "" THEN o.airline ELSE "Unknown"

\* groups: does options[i] open a new group (is its key seen first at i)?
OpensGroup(options, i) ==
  \A j \in 1..(i - 1) : GroupKey(options[j]) # GroupKey(options[i])

\* The place of the group of options[i] in the order groups.items() iterates:
\* a dict keeps its keys in insertion order.  opens[j] is OpensGroup at j.
GroupIndex(options, opens, i) ==
  LET opener == CHOOSE m \in 1..i :
                  opens[m] /\ GroupKey(options[m]) = GroupKey(options[i])
  IN Cardinality({j \in 1..opener : opens[j]})

\* Groups left in the order of the input, not sorted by price.
PlaceInGroup_InputOrder(options, i) ==
  Cardinality({j \in 1..i : GroupKey(options[j]) = GroupKey(options[i])})

\* The place of options[i] in its group once the group is sorted by price.
PlaceInGroup(options, i) ==
  Cardinality({j \in 1..Len(options) :
                 GroupKey(options[j]) = GroupKey(options[i])
                 /\ PriceBefore(options, j, i)}) + 1

SoftCap(max_total, num_airlines) ==
  Min(SOFT_CAP_MAX, Max(SOFT_CAP_MIN, (max_total \div num_airlines) + SOFT_CAP_SLACK))

\* A round-robin phase without the per-airline cap.
MayPick_NoCap(place, soft_cap) == TRUE

\* Round r of the while loop visits the groups in order and takes from each
\* its r-th cheapest flight; a group is skipped once it is empty or holds
\* soft_cap picks.  So a flight can be taken by the round-robin phase iff its
\* place in its group is at most soft_cap.
MayPick(place, soft_cap) == place <= soft_cap

\* A balancer that returns the picks in the order it took them.
FinalSort_Skipped(selected) == selected

\* selected.sort(key=lambda x: x.price)
FinalSort(selected) == SortByPrice(selected)

\* The run of balance_airlines: the loops are unrolled into the turn at which
\* each flight is taken: first by the round-robin phase (round, then group),
\* then by the fill (price, then the order of `remaining`: group, then place).
BalanceRun(options, max_total) ==
  IF options = <<>> THEN [rr |-> <<>>, soft_cap |-> 0, out |-> <<>>]
  ELSE
    LET n == Len(options)
        opens == AsSeq([i \in 1..n |-> OpensGroup(options, i)], n)
        group == AsSeq([i \in 1..n |-> GroupIndex(options, opens, i)], n)
        place == AsSeq([i \in 1..n |-> PlaceInGroup(options, i)], n)
        num_airlines == Cardinality({i \in 1..n : opens[i]})
        soft_cap == SoftCap(max_total, num_airlines)
        eligible == {i \in 1..n : MayPick(place[i], soft_cap)}
        RoundBefore(j, i) ==
          place[j] < place[i] \/ (place[j] = place[i] /\ group[j] < group[i])
        \* the turn of flight i in the round-robin phase (0: never its turn)
        turn == AsSeq([i \in 1..n |->
                         IF i \in eligible
                         THEN Cardinality({j \in eligible : RoundBefore(j, i)}) + 1
                         ELSE 0], n)
        \* while len(selected) < max_total, with the break inside the pass
        picked == {i \in eligible : turn[i] <= max_total}
        rr == AsSeq([t \in 1..Cardinality(picked) |->
                       options[CHOOSE i \in picked : turn[i] = t]],
                    Cardinality(picked))
        rest == (1..n) \ picked
        FillBefore(j, i) ==
          \/ options[j].price < options[i].price
          \/ /\ options[j].price = options[i].price
             /\ (group[j] < group[i] \/ (group[j] = group[i] /\ place[j] < place[i]))
        \* the turn of flight i in the fill (0: taken before)
        fillTurn == AsSeq([i \in 1..n |->
                             IF i \in rest
                             THEN Cardinality({j \in rest : FillBefore(j, i)}) + 1
                             ELSE 0], n)
        filled == IF Cardinality(picked) < max_total
                  THEN {i \in rest : fillTurn[i] <= max_total - Cardinality(picked)}
                  ELSE {}
        fill == AsSeq([t \in 1..Cardinality(filled) |->
                         options[CHOOSE i \in filled : fillTurn[i] = t]],
                      Cardinality(filled))
    IN [rr |-> rr,
        soft_cap |-> soft_cap,
        out |-> Take(FinalSort(rr \o fill), max_total)]

\* A balancer that lets every option through.
balance_airlines_Uncapped(options, max_total) ==
  BalanceRun(options, Len(options)).out

\* A balancer without the fill of lines 349-357.
balance_airlines_NoFill(options, max_total) ==
  Take(FinalSort(BalanceRun(options, max_total).rr), max_total)

balance_airlines(options, max_total) == BalanceRun(options, max_total).out

\* ------------------------------------------------------- the provider ----

\* What the provider holds for the date pair number idx, cheapest first
\* (the request asks for sort = total_amount).
Offer(id, code, amount, nseg, dep_at, arr_at) ==
  [id |-> id, owner_code |-> code, owner_name |-> "", total_amount |-> amount,
   nseg |-> nseg, dep_at |-> dep_at, arr_at |-> arr_at]

\* Two fares of one itinerary (same carrier, times and stops) around another.
DupSupply(idx) ==
  << Offer(idx * 1000 + 1, "AA", Num(450), 1, 600, 900),
     Offer(idx * 1000 + 2, "BB", Num(470), 2, 630, 990),
     Offer(idx * 1000 + 3, "AA", Num(500), 1, 600, 900) >>

\* A large supply of distinct itineraries of two carriers.
BulkSupply(idx) ==
  AsSeq([n \in 1..BulkSize |->
           Offer(idx * 1000 + n, IF n % 3 = 0 THEN "BB" ELSE "AA", Num(300 + n),
                 1 + (n % 2), n, n + 200)], BulkSize)

\* Incomplete offers: no amount, no carrier, no segments, broken timestamps;
\* and one whose amount is not a number.
OddSupply(idx) ==
  << Offer(idx * 1000 + 1, "", AbsentAmount, 0, BadTs, BadTs),
     Offer(idx * 1000 + 2, "CC", Num(480), 4, 700, BadTs),
     Offer(idx * 1000 + 3, "AA", BadAmount, 1, 600, 900) >>

Supplies == {"none", "dup", "bulk", "odd"}

Supply(kind, idx) ==
  CASE kind = "dup" -> DupSupply(idx)
    [] kind = "bulk" -> BulkSupply(idx)
    [] kind = "odd" -> OddSupply(idx)
    [] OTHER -> <<>>

\* How the two provider calls of one date pair can end.
Failures == {"rejected", "error", "noid", "list_rejected"}
Outcomes == Failures \cup Supplies

\* duffel_list_offers: one page of at most 300, then truncated to limit.
duffel_list_offers(data, limit) ==
  Take(Take(data, Min(limit, PROVIDER_PAGE_MAX)), limit)

\* ---------------------------------------------------- run_search_core ----

NotConfiguredResult ==
  [status |-> "error", source |-> "duffel_not_configured", options |-> <<>>,
   total_pairs |-> None, done_pairs |-> None]

NoPairsResult ==
  [status |-> "ok", source |-> "no_date_pairs", options |-> <<>>,
   total_pairs |-> Some(0), done_pairs |-> Some(0)]

NoResultsResult(total_pairs) ==
  [status |-> "ok", source |-> "duffel_no_results", options |-> <<>>,
   total_pairs |-> Some(total_pairs), done_pairs |-> Some(total_pairs)]

OkResult(options, total_pairs) ==
  [status |-> "ok", source |-> "duffel", options |-> options,
   total_pairs |-> Some(total_pairs), done_pairs |-> Some(total_pairs)]

Clamp(floor, v, cap) == Max(floor, Min(v, cap))

ResolveMaxPerPair(p) ==
  Clamp(FLOOR_OFFERS_PER_PAIR, OrDefault(p.maxOffersPerPair, DEFAULT_OFFERS_PER_PAIR),
        HARD_MAX_OFFERS_PER_PAIR)

ResolveMaxTotal(p) ==
  Clamp(FLOOR_OFFERS_TOTAL, OrDefault(p.maxOffersTotal, DEFAULT_OFFERS_TOTAL),
        HARD_MAX_OFFERS_TOTAL)

ResolveMaxPairs(p) ==
  Clamp(FLOOR_DATE_PAIRS, OrDefault(p.maxDatePairs, DEFAULT_DATE_PAIRS),
        HARD_MAX_DATE_PAIRS)

\* per_pair_limit = min(max_offers_per_pair, max_offers_total - total_count)
PerPairLimit(max_per_pair, max_total, total_count) ==
  Min(max_per_pair, max_total - total_count)

\* for offer in offers_json: append; total_count += 1; break at the budget.
CollectLoop(collected, offers, dep, ret, max_total) ==
  LET n == IF offers = <<>> THEN 0
           ELSE Min(Len(offers), Max(1, max_total - Len(collected)))
  IN collected \o AsSeq([i \in 1..n |-> [offer |-> offers[i], dep |-> dep, ret |-> ret]], n)

\* A loop without the budget check at its top.
BudgetReached_Never(total_count, max_total) == FALSE

\* Is the pair loop left before this pair (the check at the top of the body)?
BudgetReached(total_count, max_total) == total_count >= max_total

\* A failure that ends the loop (break instead of continue).
AfterFailedPair_Abort(idx) == idx + HARD_MAX_DATE_PAIRS

\* The index of the pair tried after a pair whose provider call failed.
AfterFailedPair(idx) == idx + 1

\* Lines 460-476: map, filter, balance.  [ok, options]; ok = FALSE on a raise.
Pipeline(collected, p, max_total) ==
  LET m == MapAll(collected)
      filtered == apply_filters(m.options, p)
  IN [ok |-> m.ok,
      options |-> IF m.ok
                  THEN balance_airlines(filtered, Min(max_total, Len(filtered)))
                  ELSE <<>>]

\* -------------------------------------------------------------- state ----

VARIABLES
  token,     \* is DUFFEL_ACCESS_TOKEN set?
  provider,  \* the ways a provider call can end in this deployment
  params,    \* the SearchParams of the request
  mode,      \* "none", "sync" (search_business) or "async" (a job)
  pc,        \* position of the thread that runs run_search_core
  core,      \* the locals of run_search_core
  hook,      \* the arguments of the progress hook call being executed
  attempts,  \* history: one entry per date pair whose loop body ran
  elapsed,   \* seconds since run_search_core started
  ret,       \* the value run_search_core returned (None before)
  exc,       \* the exception that escaped run_search_core (None if none)
  JOBS,      \* the job store
  poll,      \* the locals of the search_status call being executed
  fnIn,      \* the arguments of a function called on its own
  fnOut      \* what that call returned (None before)

vars == <<token, provider, params, mode, pc, core, hook, attempts, elapsed, ret, exc,
          JOBS, poll, fnIn, fnOut>>

JobId == "job1"

NewJob ==
  [status |-> "pending", total_pairs |-> 0, done_pairs |-> 0,
   total_results |-> 0, result |-> None, error |-> None]

Core0 ==
  [max_offers_per_pair |-> 0, max_offers_total |-> 0, max_date_pairs |-> 0,
   date_pairs |-> <<>>, idx |-> 0, total_count |-> 0, collected_offers |-> <<>>]

Hook0 == [done_pairs |-> 0, total_pairs |-> 0, collected |-> 0, next |-> ""]

Poll0 ==
  [pc |-> "idle", status |-> "", total_pairs |-> 0, done_pairs |-> 0,
   total_results |-> 0, error |-> None, result |-> None, results |-> <<>>]

InitOver(Tokens, Providers, Params, Ins) ==
  /\ token \in Tokens
  /\ provider \in Providers
  /\ params \in Params
  /\ mode = "none"
  /\ pc = "idle"
  /\ core = Core0
  /\ hook = Hook0
  /\ attempts = <<>>
  /\ elapsed = 0
  /\ ret = None
  /\ exc = None
  /\ JOBS = [j \in {} |-> NewJob]
  /\ poll = Poll0
  /\ fnIn \in Ins
  /\ fnOut = None

\* ------------------------------------------------- the two entry points --

search_business ==
  /\ pc = "idle"
  /\ mode' = "sync"
  /\ pc' = "core_start"
  /\ UNCHANGED <<token, provider, params, core, hook, attempts, elapsed, ret, exc, JOBS, poll, fnIn, fnOut>>

search_business_async ==
  /\ pc = "idle"
  /\ mode' = "async"
  /\ JOBS' = [j \in {JobId} |-> NewJob]
  /\ pc' = "scheduled"
  /\ UNCHANGED <<token, provider, params, core, hook, attempts, elapsed, ret, exc, poll, fnIn, fnOut>>

\* A runner that leaves the status as it found it.
StatusAtStart_Skipped == "pending"

\* The status _search_job_runner writes before it calls run_search_core.
StatusAtStart == "running"

RunnerStart ==
  /\ pc = "scheduled"
  /\ JobId \in DOMAIN JOBS
  /\ JOBS' = [JOBS EXCEPT ![JobId].status = StatusAtStart]
  /\ pc' = "core_start"
  /\ UNCHANGED <<token, provider, params, mode, core, hook, attempts, elapsed, ret, exc, poll, fnIn, fnOut>>

\* -------------------------------------------- run_search_core, by steps --

\* A core that does not look at the credential.
NotConfigured_Ignored == FALSE

\* Does run_search_core return at once, before any pair (lines 371-376)?
NotConfigured == ~token

CoreStart ==
  /\ pc = "core_start"
  /\ IF NotConfigured
     THEN /\ ret' = Some(NotConfiguredResult)
          /\ pc' = "core_done"
          /\ UNCHANGED core
     ELSE LET date_pairs == generate_date_pairs(params, ResolveMaxPairs(params)) IN
          /\ core' = [max_offers_per_pair |-> ResolveMaxPerPair(params),
                      max_offers_total |-> ResolveMaxTotal(params),
                      max_date_pairs |-> ResolveMaxPairs(params),
                      date_pairs |-> date_pairs,
                      idx |-> 1, total_count |-> 0, collected_offers |-> <<>>]
          /\ IF date_pairs = <<>>
             THEN ret' = Some(NoPairsResult) /\ pc' = "core_done"
             ELSE ret' = ret /\ pc' = "loop"
  /\ UNCHANGED <<token, provider, params, mode, hook, attempts, elapsed, exc, JOBS, poll, fnIn, fnOut>>

\* The head of the for loop, the budget check and the call of the hook.
LoopTop ==
  /\ pc = "loop"
  /\ IF core.idx > Len(core.date_pairs)
        \/ BudgetReached(core.total_count, core.max_offers_total)
     THEN pc' = "after_loop" /\ hook' = hook
     ELSE IF mode = "async"
          THEN /\ hook' = [done_pairs |-> core.idx - 1,
                           total_pairs |-> Len(core.date_pairs),
                           collected |-> core.total_count, next |-> "call"]
               /\ pc' = "hook_done_pairs"
          ELSE pc' = "call" /\ hook' = hook
  /\ UNCHANGED <<token, provider, params, mode, core, attempts, elapsed, ret, exc, JOBS, poll, fnIn, fnOut>>

\* _update_job_progress, one field write per step.
HookDonePairs ==
  /\ pc = "hook_done_pairs"
  /\ JOBS' = [JOBS EXCEPT ![JobId].done_pairs = hook.done_pairs]
  /\ pc' = "hook_total_pairs"
  /\ UNCHANGED <<token, provider, params, mode, core, hook, attempts, elapsed, ret, exc, poll, fnIn, fnOut>>

HookTotalPairs ==
  /\ pc = "hook_total_pairs"
  /\ JOBS' = [JOBS EXCEPT ![JobId].total_pairs = hook.total_pairs]
  /\ pc' = "hook_total_results"
  /\ UNCHANGED <<token, provider, params, mode, core, hook, attempts, elapsed, ret, exc, poll, fnIn, fnOut>>

HookTotalResults ==
  /\ pc = "hook_total_results"
  /\ JOBS' = [JOBS EXCEPT ![JobId].total_results = hook.collected]
  /\ pc' = hook.next
  /\ UNCHANGED <<token, provider, params, mode, core, hook, attempts, elapsed, ret, exc, poll, fnIn, fnOut>>

Attempt(kind, limit, got, calls) ==
  [idx |-> core.idx, kind |-> kind, before |-> core.total_count,
   limit |-> limit, got |-> got, calls |-> calls, at |-> elapsed]

\* The try block of one date pair: create the offer request, list its offers.
PairCall ==
  /\ pc = "call"
  /\ \E outcome \in provider :
       LET dep == core.date_pairs[core.idx][1]
           rtn == core.date_pairs[core.idx][2]
           limit == PerPairLimit(core.max_offers_per_pair, core.max_offers_total,
                                 core.total_count)
           offers == duffel_list_offers(Supply(outcome, core.idx), limit)
           collected == CollectLoop(core.collected_offers, offers, dep, rtn,
                                    core.max_offers_total)
       IN IF ~token
          THEN \* duffel_create_offer_request raises before any request is sent
               /\ attempts' = Append(attempts, Attempt("unconfigured", 0, 0, 0))
               /\ core' = [core EXCEPT !.idx = AfterFailedPair(core.idx)]
               /\ elapsed' = elapsed
          ELSE IF outcome \in {"rejected", "error", "noid"}
          THEN /\ attempts' = Append(attempts, Attempt(outcome, 0, 0, 1))
               /\ core' = [core EXCEPT !.idx = AfterFailedPair(core.idx)]
               /\ elapsed' = elapsed + (IF outcome = "error" THEN CALL_TIMEOUT ELSE 0)
          ELSE IF outcome = "list_rejected"
          THEN /\ attempts' = Append(attempts, Attempt(outcome, limit, 0, 2))
               /\ core' = [core EXCEPT !.idx = AfterFailedPair(core.idx)]
               /\ elapsed' = elapsed
          ELSE /\ attempts' = Append(attempts, Attempt(outcome, limit, Len(offers), 2))
               /\ core' = [core EXCEPT !.idx = core.idx + 1,
                                       !.collected_offers = collected,
                                       !.total_count = Len(collected)]
               /\ elapsed' = elapsed
  /\ pc' = "loop"
  /\ UNCHANGED <<token, provider, params, mode, hook, ret, exc, JOBS, poll, fnIn, fnOut>>

\* The call of the hook after the loop (lines 448-449).
AfterLoop ==
  /\ pc = "after_loop"
  /\ IF mode = "async"
     THEN /\ hook' = [done_pairs |-> Len(core.date_pairs),
                      total_pairs |-> Len(core.date_pairs),
                      collected |-> core.total_count, next |-> "finish"]
          /\ pc' = "hook_done_pairs"
     ELSE pc' = "finish" /\ hook' = hook
  /\ UNCHANGED <<token, provider, params, mode, core, attempts, elapsed, ret, exc, JOBS, poll, fnIn, fnOut>>

\* Lines 451-476: the empty result, or map, filter, balance and return.
Finish ==
  /\ pc = "finish"
  /\ IF core.collected_offers = <<>>
     THEN ret' = Some(NoResultsResult(Len(core.date_pairs))) /\ exc' = exc
     ELSE LET out == Pipeline(core.collected_offers, params, core.max_offers_total) IN
          IF out.ok
          THEN ret' = Some(OkResult(out.options, Len(core.date_pairs))) /\ exc' = exc
          ELSE ret' = ret /\ exc' = Some("ValueError")
  /\ pc' = "core_done"
  /\ UNCHANGED <<token, provider, params, mode, core, hook, attempts, elapsed, JOBS, poll, fnIn, fnOut>>

\* search_business returns what run_search_core returned (or the raise).
SyncReturn ==
  /\ pc = "core_done"
  /\ mode = "sync"
  /\ pc' = "done"
  /\ UNCHANGED <<token, provider, params, mode, core, hook, attempts, elapsed, ret, exc, JOBS, poll, fnIn, fnOut>>

\* ------------------------------- _search_job_runner after the core call --

\* A runner that never marks the job as completed.
StatusOnReturn_Running == "running"

StatusOnReturn == "completed"

\* A runner that reports a raised exception as a completed job.
StatusOnRaise_Completed == "completed"

StatusOnRaise == "failed"

RunnerCompleted ==
  /\ pc = "core_done"
  /\ mode = "async"
  /\ exc = None
  /\ JOBS' = [JOBS EXCEPT ![JobId].status = StatusOnReturn]
  /\ pc' = "w_result"
  /\ UNCHANGED <<token, provider, params, mode, core, hook, attempts, elapsed, ret, exc, poll, fnIn, fnOut>>

RunnerResult ==
  /\ pc = "w_result"
  /\ JOBS' = [JOBS EXCEPT ![JobId].result = ret]
  /\ pc' = "w_total_pairs"
  /\ UNCHANGED <<token, provider, params, mode, core, hook, attempts, elapsed, ret, exc, poll, fnIn, fnOut>>

\* result.get(key, job.get(key, 0))
GetOr(field, fallback) == IF IsNone(field) THEN fallback ELSE Val(field)

RunnerTotalPairs ==
  /\ pc = "w_total_pairs"
  /\ JOBS' = [JOBS EXCEPT ![JobId].total_pairs = GetOr(Val(ret).total_pairs, @)]
  /\ pc' = "w_done_pairs"
  /\ UNCHANGED <<token, provider, params, mode, core, hook, attempts, elapsed, ret, exc, poll, fnIn, fnOut>>

RunnerDonePairs ==
  /\ pc = "w_done_pairs"
  /\ JOBS' = [JOBS EXCEPT ![JobId].done_pairs = GetOr(Val(ret).done_pairs, @)]
  /\ pc' = "w_total_results"
  /\ UNCHANGED <<token, provider, params, mode, core, hook, attempts, elapsed, ret, exc, poll, fnIn, fnOut>>

RunnerTotalResults ==
  /\ pc = "w_total_results"
  /\ JOBS' = [JOBS EXCEPT ![JobId].total_results = Len(Val(ret).options)]
  /\ pc' = "done"
  /\ UNCHANGED <<token, provider, params, mode, core, hook, attempts, elapsed, ret, exc, poll, fnIn, fnOut>>

RunnerFailed ==
  /\ pc = "core_done"
  /\ mode = "async"
  /\ exc # None
  /\ JOBS' = [JOBS EXCEPT ![JobId].status = StatusOnRaise]
  /\ pc' = "f_error"
  /\ UNCHANGED <<token, provider, params, mode, core, hook, attempts, elapsed, ret, exc, poll, fnIn, fnOut>>

RunnerError ==
  /\ pc = "f_error"
  /\ JOBS' = [JOBS EXCEPT ![JobId].error = exc]
  /\ pc' = "done"
  /\ UNCHANGED <<token, provider, params, mode, core, hook, attempts, elapsed, ret, exc, poll, fnIn, fnOut>>

\* ------------------------------------------- search_status, read by read --

DEFAULT_OFFSET == 0
DEFAULT_LIMIT == 50
MAX_PAGE == 200

\* options[start:end] with start = max(0, offset), end = start + max_limit
ResultSlice(options, offset, limit) ==
  LET start == Max(0, offset)
      max_limit == Max(1, Min(limit, MAX_PAGE))
  IN SubSeq(options, start + 1, Min(start + max_limit, Len(options)))

PollNotFound ==
  /\ poll.pc = "idle"
  /\ JobId \notin DOMAIN JOBS
  /\ poll' = [poll EXCEPT !.pc = "not_found"]
  /\ UNCHANGED <<token, provider, params, mode, pc, core, hook, attempts, elapsed, ret, exc, JOBS, fnIn, fnOut>>

PollStatus ==
  /\ poll.pc = "idle"
  /\ JobId \in DOMAIN JOBS
  /\ poll' = [poll EXCEPT !.pc = "r_total_pairs", !.status = JOBS[JobId].status]
  /\ UNCHANGED <<token, provider, params, mode, pc, core, hook, attempts, elapsed, ret, exc, JOBS, fnIn, fnOut>>

PollTotalPairs ==
  /\ poll.pc = "r_total_pairs"
  /\ poll' = [poll EXCEPT !.pc = "r_done_pairs", !.total_pairs = JOBS[JobId].total_pairs]
  /\ UNCHANGED <<token, provider, params, mode, pc, core, hook, attempts, elapsed, ret, exc, JOBS, fnIn, fnOut>>

PollDonePairs ==
  /\ poll.pc = "r_done_pairs"
  /\ poll' = [poll EXCEPT !.pc = "r_total_results", !.done_pairs = JOBS[JobId].done_pairs]
  /\ UNCHANGED <<token, provider, params, mode, pc, core, hook, attempts, elapsed, ret, exc, JOBS, fnIn, fnOut>>

PollTotalResults ==
  /\ poll.pc = "r_total_results"
  /\ poll' = [poll EXCEPT !.pc = "r_error", !.total_results = JOBS[JobId].total_results]
  /\ UNCHANGED <<token, provider, params, mode, pc, core, hook, attempts, elapsed, ret, exc, JOBS, fnIn, fnOut>>

PollError ==
  /\ poll.pc = "r_error"
  /\ poll' = [poll EXCEPT !.pc = "r_result", !.error = JOBS[JobId].error]
  /\ UNCHANGED <<token, provider, params, mode, pc, core, hook, attempts, elapsed, ret, exc, JOBS, fnIn, fnOut>>

\* Line 575 on: the read of job["result"] and the response.
PollResult ==
  /\ poll.pc = "r_result"
  /\ LET result == JOBS[JobId].result
         shown == poll.status = "completed" /\ ~IsNone(result)
     IN poll' = [poll EXCEPT
                   !.pc = "respond",
                   !.result = IF poll.status = "completed" THEN result ELSE None,
                   !.results = IF shown
                               THEN ResultSlice(Val(result).options, DEFAULT_OFFSET,
                                                DEFAULT_LIMIT)
                               ELSE <<>>]
  /\ UNCHANGED <<token, provider, params, mode, pc, core, hook, attempts, elapsed, ret, exc, JOBS, fnIn, fnOut>>

\* The response (or the 404) is sent; the next poll starts afresh.
PollReturn ==
  /\ poll.pc \in {"respond", "not_found"}
  /\ poll' = Poll0
  /\ UNCHANGED <<token, provider, params, mode, pc, core, hook, attempts, elapsed, ret, exc, JOBS, fnIn, fnOut>>

\* ----------------------------------------------------- specifications ----

Window(e, l, mn, mx) ==
  [earliestDeparture |-> e, latestDeparture |-> l, minStayDays |-> mn, maxStayDays |-> mx]

Request(w, maxPrice, stopsFilter, perPair, total, pairs) ==
  [earliestDeparture |-> w.earliestDeparture, latestDeparture |-> w.latestDeparture,
   minStayDays |-> w.minStayDays, maxStayDays |-> w.maxStayDays,
   maxPrice |-> maxPrice, stopsFilter |-> stopsFilter, cabin |-> "BUSINESS",
   maxOffersPerPair |-> perPair, maxOffersTotal |-> total, maxDatePairs |-> pairs]

\* Requests of the asynchronous runs: no pair, or the pairs (1,3) and (2,4).
JobRequests ==
  {Request(w, mp, None, Some(300), Some(1), None) :
     w \in {Window(3, 1, 2, 2), Window(1, 4, 2, 2)}, mp \in {None, Some(460)}}

\* The provider of the asynchronous runs holds a few offers per date pair.
JobProvider == Failures \cup {"none", "dup", "odd"}

Init == InitOver(BOOLEAN, {JobProvider}, JobRequests, {None})

Next ==
  \/ search_business
  \/ search_business_async
  \/ RunnerStart
  \/ CoreStart
  \/ LoopTop
  \/ HookDonePairs
  \/ HookTotalPairs
  \/ HookTotalResults
  \/ PairCall
  \/ AfterLoop
  \/ Finish
  \/ SyncReturn
  \/ RunnerCompleted
  \/ RunnerResult
  \/ RunnerTotalPairs
  \/ RunnerDonePairs
  \/ RunnerTotalResults
  \/ RunnerFailed
  \/ RunnerError
  \/ PollNotFound
  \/ PollStatus
  \/ PollTotalPairs
  \/ PollDonePairs
  \/ PollTotalResults
  \/ PollError
  \/ PollResult
  \/ PollReturn

Spec == Init /\ [][Next]_vars

\* The synchronous endpoint alone, over more requests and a provider that can
\* also hold more offers than the budgets admit.
CoreRequests ==
  {Request(w, mp, None, pp, tot, None) :
     w \in {Window(3, 1, 2, 2), Window(1, 3, 2, 2), Window(1, 4, 2, 2)},
     mp \in {None, Some(460)},
     pp \in {None, Some(300)},
     tot \in {None, Some(1)}}
  \cup {Request(Window(1, 4, 1, 2), None, None, None, None, Some(3))}
  \cup {Request(Window(1, 3, 2, 2), Some(mp), None, None, None, None) :
          mp \in {400, 0, 0 - 1}}
  \cup {Request(Window(1, 3, 2, 2), None, None, Some(v), Some(v), Some(v)) :
          v \in {0, 0 - 1, 7, 20000}}

InitCore == InitOver(BOOLEAN, {Outcomes}, CoreRequests, {None})

NextCore ==
  \/ search_business
  \/ CoreStart
  \/ LoopTop
  \/ PairCall
  \/ AfterLoop
  \/ Finish
  \/ SyncReturn

SpecCore == InitCore /\ [][NextCore]_vars

\* balance_airlines called on its own: a flights of AA and b flights of BB,
\* in either order, unsorted and with equal prices among them.
Flight(id, code, price) ==
  [id |-> id, airline |-> code, airlineCode |-> code, price |-> price,
   departureDate |-> 1, returnDate |-> 3, stops |-> 0, durationMinutes |-> 0]

BalanceOptions(a, b, layout) ==
  LET as == AsSeq([i \in 1..a |-> Flight(i, "AA", 300 - (i \div 2))], a)
      bs == AsSeq([i \in 1..b |-> Flight(500 + i, "BB", 295 + i)], b)
  IN IF layout = "AB" THEN as \o bs ELSE bs \o as

BalanceInputs ==
  {[options |-> BalanceOptions(a, b, layout), max_total |-> m] :
     a \in 0..MaxGroupA, b \in 0..MaxGroupB, layout \in {"AB", "BA"},
     m \in 0..(MaxGroupA + MaxGroupB + 1)}

BalanceCall ==
  /\ fnOut = None
  /\ fnOut' = Some([run |-> BalanceRun(fnIn.options, fnIn.max_total),
                    out |-> balance_airlines(fnIn.options, fnIn.max_total)])
  /\ UNCHANGED <<token, provider, params, mode, pc, core, hook, attempts, elapsed,
                 ret, exc, JOBS, poll, fnIn>>

\* The caller drops the list it got.
BalanceDrop ==
  /\ fnOut # None
  /\ fnOut' = None
  /\ UNCHANGED <<token, provider, params, mode, pc, core, hook, attempts, elapsed,
                 ret, exc, JOBS, poll, fnIn>>

PlainRequest == Request(Window(1, 3, 2, 2), None, None, None, None, None)

InitBalance == InitOver({TRUE}, {Outcomes}, {PlainRequest}, BalanceInputs)

NextBalance == BalanceCall \/ BalanceDrop

SpecBalance == InitBalance /\ [][NextBalance]_vars

\* The ItineraryKey of a collected offer: carrier, outbound departure and
\* arrival, outbound stops, cabin, departure date, return date.
ItineraryKey(c, cabin) ==
  <<c.offer.owner_code, c.offer.dep_at, c.offer.arr_at, Max(0, c.offer.nseg - 1),
    cabin, c.dep, c.ret>>

\* The option a result shows first for an itinerary key (None if it shows none).
Representative(collected, options, cabin, k) ==
  LET ids == {collected[i].offer.id : i \in {j \in 1..Len(collected) :
                                             ItineraryKey(collected[j], cabin) = k}}
      at == {r \in 1..Len(options) : options[r].id \in ids}
  IN IF at = {} THEN None
     ELSE Some(options[CHOOSE r \in at : \A q \in at : r <= q])

\* The key -> option mapping read off the options lines 460-468 produce.
KeyMapping(collected, p) ==
  LET out == Pipeline(collected, p, ResolveMaxTotal(p))
      keys == {ItineraryKey(collected[i], p.cabin) : i \in 1..Len(collected)}
  IN [k \in keys |-> Representative(collected, out.options, p.cabin, k)]

\* Collected offers to permute: three fares of one itinerary, two of them at
\* the same price, and another itinerary.
PermPool ==
  << [offer |-> Offer(1, "AA", Num(450), 1, 600, 900), dep |-> 1, ret |-> 3],
     [offer |-> Offer(2, "AA", Num(450), 1, 600, 900), dep |-> 1, ret |-> 3],
     [offer |-> Offer(3, "AA", Num(500), 1, 600, 900), dep |-> 1, ret |-> 3],
     [offer |-> Offer(4, "BB", Num(470), 2, 630, 990), dep |-> 1, ret |-> 3],
     [offer |-> Offer(5, "BB", Num(440), 2, 630, 990), dep |-> 1, ret |-> 3] >>

Arrangements ==
  UNION {{f \in [1..n -> 1..Len(PermPool)] :
            \A i, j \in 1..n : i # j => f[i] # f[j]} : n \in 0..MaxPermLen}

Range(f) == {f[i] : i \in DOMAIN f}

PermInputs ==
  {[first |-> f, second |-> g] :
     <<f, g>> \in {fg \in Arrangements \X Arrangements : Range(fg[1]) = Range(fg[2])}}

Arranged(f) == AsSeq([i \in 1..Len(f) |-> PermPool[f[i]]], Len(f))

\* The same offers go through lines 460-468 in two orders.
PermCall ==
  /\ fnOut = None
  /\ fnOut' = Some([first |-> KeyMapping(Arranged(fnIn.first), params),
                    second |-> KeyMapping(Arranged(fnIn.second), params)])
  /\ UNCHANGED <<token, provider, params, mode, pc, core, hook, attempts, elapsed,
                 ret, exc, JOBS, poll, fnIn>>

PermDrop ==
  /\ fnOut # None
  /\ fnOut' = None
  /\ UNCHANGED <<token, provider, params, mode, pc, core, hook, attempts, elapsed,
                 ret, exc, JOBS, poll, fnIn>>

InitPerm == InitOver({TRUE}, {Outcomes}, {PlainRequest}, PermInputs)

NextPerm == PermCall \/ PermDrop

SpecPerm == InitPerm /\ [][NextPerm]_vars

\* generate_date_pairs called on its own: dates are day numbers, the stay
\* lengths include zero and negative ones, the window may be inverted.
DateInputs ==
  {[p |-> Window(e, l, mn, mx), max_pairs |-> m] :
     e \in 1..MaxDay, l \in 1..MaxDay,
     mn \in (0 - 1)..MaxStay, mx \in (0 - 1)..MaxStay, m \in 0..MaxPairs}

DatesCall ==
  /\ fnOut = None
  /\ fnOut' = Some(generate_date_pairs(fnIn.p, fnIn.max_pairs))
  /\ UNCHANGED <<token, provider, params, mode, pc, core, hook, attempts, elapsed,
                 ret, exc, JOBS, poll, fnIn>>

\* The caller drops the list it got.
DatesDrop ==
  /\ fnOut # None
  /\ fnOut' = None
  /\ UNCHANGED <<token, provider, params, mode, pc, core, hook, attempts, elapsed,
                 ret, exc, JOBS, poll, fnIn>>

InitDates == InitOver({TRUE}, {Outcomes}, {PlainRequest}, DateInputs)

NextDates == DatesCall \/ DatesDrop

SpecDates == InitDates /\ [][NextDates]_vars

\* apply_filters called on its own: flights of 0..MaxStops stops, a run of
\* them in either order, every allow-list over 0..4 and ceilings that are
\* absent, zero, negative or positive.
StopFlight(i) ==
  [Flight(i, IF i % 2 = 0 THEN "AA" ELSE "BB", 380 + ((i * 70) % 200))
     EXCEPT !.stops = i - 1]

FilterOptions(a, b, layout) ==
  AsSeq([i \in 1..(b - a + 1) |->
           StopFlight(IF layout = "up" THEN a + i - 1 ELSE b - i + 1)], b - a + 1)

FilterInputs ==
  {[options |-> FilterOptions(a, b, layout),
    p |-> Request(Window(1, 3, 2, 2), mp, sf, None, None, None)] :
     a \in 1..(MaxStops + 1), b \in 0..(MaxStops + 1), layout \in {"up", "down"},
     mp \in {None, Some(0), Some(0 - 1), Some(450)},
     sf \in {None} \cup {Some(S) : S \in SUBSET (0..4)}}

FilterCall ==
  /\ fnOut = None
  /\ fnOut' = Some(apply_filters(fnIn.options, fnIn.p))
  /\ UNCHANGED <<token, provider, params, mode, pc, core, hook, attempts, elapsed,
                 ret, exc, JOBS, poll, fnIn>>

\* The caller drops the list it got.
FilterDrop ==
  /\ fnOut # None
  /\ fnOut' = None
  /\ UNCHANGED <<token, provider, params, mode, pc, core, hook, attempts, elapsed,
                 ret, exc, JOBS, poll, fnIn>>

InitFilter == InitOver({TRUE}, {Outcomes}, {PlainRequest}, FilterInputs)

NextFilter == FilterCall \/ FilterDrop

SpecFilter == InitFilter /\ [][NextFilter]_vars

\* The background job alone, nobody polling, over a provider that can hold
\* more offers than the budget admits.
HookRequests ==
  {Request(w, None, None, Some(300), Some(1), None) :
     w \in {Window(3, 1, 2, 2), Window(1, 4, 2, 2), Window(1, 5, 2, 2)}}

HookProvider == {"bulk", "none", "error", "odd"}

InitHook == InitOver(BOOLEAN, {HookProvider}, HookRequests, {None})

NextHook ==
  \/ search_business_async
  \/ RunnerStart
  \/ CoreStart
  \/ LoopTop
  \/ HookDonePairs
  \/ HookTotalPairs
  \/ HookTotalResults
  \/ PairCall
  \/ AfterLoop
  \/ Finish
  \/ RunnerCompleted
  \/ RunnerResult
  \/ RunnerTotalPairs
  \/ RunnerDonePairs
  \/ RunnerTotalResults
  \/ RunnerFailed
  \/ RunnerError

SpecHook == InitHook /\ [][NextHook]_vars

\* The steps of the background task, which the thread pool keeps running
\* once it is scheduled; every provider call returns or times out.
RunnerStep ==
  \/ RunnerStart
  \/ CoreStart
  \/ LoopTop
  \/ HookDonePairs
  \/ HookTotalPairs
  \/ HookTotalResults
  \/ PairCall
  \/ AfterLoop
  \/ Finish
  \/ RunnerCompleted
  \/ RunnerResult
  \/ RunnerTotalPairs
  \/ RunnerDonePairs
  \/ RunnerTotalResults
  \/ RunnerFailed
  \/ RunnerError

\* The jobs and their polls, with a background task that is scheduled. The
\* price ceiling lies below every offer, so a completed job has collected
\* offers and an empty option list.
FairRequests ==
  {Request(w, Some(400), None, Some(300), Some(1), None) :
     w \in {Window(3, 1, 2, 2), Window(1, 4, 2, 2)}}

FairProvider == {"none", "dup", "error", "odd"}

InitFair == InitOver(BOOLEAN, {FairProvider}, FairRequests, {None})

SpecFair == InitFair /\ [][Next]_vars /\ WF_vars(RunnerStep)

\* ------------------------------------------------------------- claims ----

JobStatus == IF JobId \in DOMAIN JOBS THEN JOBS[JobId].status ELSE "absent"

Returned == pc \in {"core_done", "done", "w_result", "w_total_pairs",
                    "w_done_pairs", "w_total_results", "f_error"}

\* The moves of a job's status that the state machine of a search allows.
StatusMoves ==
  {<<"absent", "pending">>, <<"pending", "running">>,
   <<"running", "completed">>, <<"running", "failed">>}

\* C1: in every step of every interleaving of search_business_async, the
\* runner and the polls, a job's status either stays as it is or moves
\* pending -> running, running -> completed or running -> failed (a job first
\* appears as pending); so a completed or failed job never changes status.
C1_StatusMoves ==
  [][JobStatus' # JobStatus => <<JobStatus, JobStatus'>> \in StatusMoves]_vars

\* A job failed by an exception that escaped run_search_core, polled at the end.
C1_Witness ==
  pc = "done" /\ JobStatus = "failed" /\ poll.pc = "respond" /\ poll.status = "failed"

\* C2: a poll that read status "completed" also read the final, non-null
\* result, and the progress it returns is that of the final result:
\* totalResults is the number of options of the result, and donePairs and
\* totalPairs are the result's counts.
C2_ConsistentSnapshot ==
  (poll.pc = "respond" /\ poll.status = "completed") =>
     /\ ~IsNone(ret)
     /\ poll.result = ret
     /\ poll.total_results = Len(Val(ret).options)
     /\ poll.total_pairs = GetOr(Val(ret).total_pairs, 0)
     /\ poll.done_pairs = GetOr(Val(ret).done_pairs, 0)

\* The offers the successful attempts 1..k obtained, in order, with their dates.
RECURSIVE Obtained(_)
Obtained(k) ==
  IF k = 0 THEN <<>>
  ELSE LET a == attempts[k]
           got == IF a.kind \in Supplies
                  THEN SubSeq(Supply(a.kind, a.idx), 1, a.got) ELSE <<>>
       IN Obtained(k - 1) \o
          AsSeq([i \in 1..Len(got) |->
                   [offer |-> got[i], dep |-> core.date_pairs[a.idx][1],
                    ret |-> core.date_pairs[a.idx][2]]], Len(got))

LoopLeft == pc \in {"after_loop", "finish"} \/ (Returned /\ core.idx > 0)

StoppedOnBudget ==
  LoopLeft /\ Len(attempts) < Len(core.date_pairs)
           /\ core.total_count >= core.max_offers_total

HasBadAmount(collected) ==
  \E i \in 1..Len(collected) : collected[i].offer.total_amount.tag = "bad"

\* C3: whatever the provider calls of the pairs do (success, rejection, error,
\* missing request id), the pairs are attempted one after the other in
\* generation order and none is skipped; the loop is left only after the last
\* pair or on the offer budget; the collected offers are exactly those the
\* successful pairs obtained; no provider failure makes run_search_core raise
\* (it raises only while mapping an offer whose amount is no number); and
\* what it returns has status "ok" and a source tag, with no options and
\* source "duffel_no_results" when every pair failed.
C3_FailuresNeverAbort ==
  token =>
    /\ \A i \in 1..Len(attempts) : attempts[i].idx = i
    /\ core.collected_offers = Obtained(Len(attempts))
    /\ LoopLeft =>
         \/ Len(attempts) = Len(core.date_pairs)
         \/ core.total_count >= core.max_offers_total
    /\ exc # None => HasBadAmount(core.collected_offers)
    /\ (Returned /\ exc = None) =>
         /\ ~IsNone(ret)
         /\ Val(ret).status = "ok"
         /\ Val(ret).source \in {"no_date_pairs", "duffel_no_results", "duffel"}
         /\ (\A i \in 1..Len(attempts) : attempts[i].kind \in Failures) =>
              /\ Val(ret).options = <<>>
              /\ Val(ret).source \in {"no_date_pairs", "duffel_no_results"}

\* The first pair failed, the second was still queried and its offers returned.
C3_Witness ==
  /\ pc = "done" /\ Len(attempts) = 2
  /\ attempts[1].kind = "error" /\ attempts[2].kind = "dup"
  /\ ~IsNone(ret) /\ Val(ret).status = "ok" /\ Val(ret).options # <<>>

\* C4: the collected offers never exceed the resolved maxOffersTotal; every
\* listOffers call carries limit = min(perPairCap, maxOffersTotal - collected)
\* and returns at most that many; no pair is queried once the collected count
\* has reached maxOffersTotal; and a run stopped on the budget returns "ok".
C4_OfferBudget ==
  (token /\ core.idx > 0) =>
    /\ core.max_offers_total = ResolveMaxTotal(params)
    /\ core.total_count = Len(core.collected_offers)
    /\ core.total_count <= core.max_offers_total
    /\ \A i \in 1..Len(attempts) :
         /\ attempts[i].before < core.max_offers_total
         /\ attempts[i].calls = 2 =>
              /\ attempts[i].limit = Min(ResolveMaxPerPair(params),
                                         core.max_offers_total - attempts[i].before)
              /\ attempts[i].got <= attempts[i].limit
    /\ (StoppedOnBudget /\ Returned /\ exc = None) =>
         ~IsNone(ret) /\ Val(ret).status = "ok"

\* The budget was reached with a pair left, which was not queried.
C4_Witness ==
  /\ pc = "done" /\ StoppedOnBudget /\ ~IsNone(ret) /\ Val(ret).status = "ok"
  /\ \E i \in 1..Len(attempts) :
       attempts[i].calls = 2 /\ attempts[i].limit < core.max_offers_per_pair

\* The wall-clock ceiling of a search the design asks for, in seconds.
GlobalTimeBudget == 45

\* C5: no date pair is queried once the time elapsed since the start of
\* the search exceeds the global time budget.
C5_TimeCeiling ==
  \A i \in 1..Len(attempts) : attempts[i].at <= GlobalTimeBudget

\* C6: without a provider credential no date pair is processed and no provider
\* call is made, and run_search_core returns status "error", source
\* "duffel_not_configured" and no options, without raising.
C6_NotConfigured ==
  ~token =>
    /\ attempts = <<>>
    /\ core = Core0
    /\ exc = None
    /\ Returned => ret = Some(NotConfiguredResult)

C6_Witness == ~token /\ pc = "done" /\ ret = Some(NotConfiguredResult)

\* The ids of the options of a result.
OptionIds(options) == {options[r].id : r \in 1..Len(options)}

\* C7: of the collected offers that share an itinerary key, the final option
\* list holds at most one, and none that is priced above another of them.
C7_OnePerItinerary ==
  (Returned /\ exc = None /\ ~IsNone(ret)) =>
     \A i, j \in 1..Len(core.collected_offers) :
        LET ci == core.collected_offers[i]
            cj == core.collected_offers[j]
        IN (i # j /\ ItineraryKey(ci, params.cabin) = ItineraryKey(cj, params.cabin)
                  /\ ci.offer.id \in OptionIds(Val(ret).options))
           => /\ cj.offer.id \notin OptionIds(Val(ret).options)
              /\ ParsePrice(ci.offer.total_amount).val
                   <= ParsePrice(cj.offer.total_amount).val

\* C8: whatever the order in which the same offers arrive, the mapping from
\* itinerary key to option that results is the same.
C8_OrderIndependent ==
  fnOut # None => Val(fnOut).first = Val(fnOut).second

\* C9: balance_airlines never returns more than max_total options.
C9_AtMostMaxTotal ==
  fnOut # None => Len(Val(fnOut).out) <= fnIn.max_total

\* Fewer options asked for than given, and exactly that many returned.
C9_Witness ==
  /\ fnOut # None
  /\ fnIn.max_total > 0
  /\ fnIn.max_total < Len(fnIn.options)
  /\ Len(Val(fnOut).out) = fnIn.max_total

CountOf(options, k) ==
  Cardinality({r \in 1..Len(options) : GroupKey(options[r]) = k})

KeysOf(options) == {GroupKey(options[r]) : r \in 1..Len(options)}

\* softCap = clamp(max_total // numAirlines + 5, 20, 200)
ClaimedSoftCap(options, max_total) ==
  Min(200, Max(20, (max_total \div Cardinality(KeysOf(options))) + 5))

\* C10: when the round-robin phase itself selected max_total options (no
\* fill was needed), no airline has more than softCap options in the output.
C10_SoftCapWithoutFill ==
  (fnOut # None /\ fnIn.options # <<>>
     /\ Len(Val(fnOut).run.rr) >= fnIn.max_total) =>
    \A k \in KeysOf(fnIn.options) :
       CountOf(Val(fnOut).out, k) <= ClaimedSoftCap(fnIn.options, fnIn.max_total)

\* The round-robin phase filled the list while an airline, held at softCap,
\* had cheaper flights left.
C10_Witness ==
  /\ fnOut # None /\ fnIn.options # <<>>
  /\ Len(Val(fnOut).run.rr) >= fnIn.max_total
  /\ \E k \in KeysOf(fnIn.options) :
       /\ CountOf(Val(fnOut).out, k) = ClaimedSoftCap(fnIn.options, fnIn.max_total)
       /\ CountOf(fnIn.options, k) > CountOf(Val(fnOut).out, k)

\* ------------------------------------------- claims on the date pairs ----

ValidWindow(p) ==
  p.earliestDeparture <= p.latestDeparture /\ p.minStayDays <= p.maxStayDays

\* The stay lengths after the normalisation of lines 125-126.
NormMinStay(p) == Max(1, p.minStayDays)
NormMaxStay(p) == Max(NormMinStay(p), p.maxStayDays)

\* C11 as stated: for a window with earliest <= latest and minStay <= maxStay
\* every emitted pair has minStay <= ret - dep <= maxStay, dep >= earliest
\* and ret <= latest.
C11_StayWithinRequest ==
  (fnOut # None /\ ValidWindow(fnIn.p)) =>
    \A i \in 1..Len(Val(fnOut)) :
      LET d == Val(fnOut)[i][1]
          r == Val(fnOut)[i][2]
      IN /\ fnIn.p.minStayDays <= r - d
         /\ r - d <= fnIn.p.maxStayDays
         /\ d >= fnIn.p.earliestDeparture
         /\ r <= fnIn.p.latestDeparture

\* C11 amended: for a window with earliest <= latest and minStay <= maxStay
\* every emitted pair has max(1, minStay) <= ret - dep <= max(max(1, minStay),
\* maxStay), dep >= earliest and ret <= latest.
C11_StayWithinNormalised ==
  (fnOut # None /\ ValidWindow(fnIn.p)) =>
    \A i \in 1..Len(Val(fnOut)) :
      LET d == Val(fnOut)[i][1]
          r == Val(fnOut)[i][2]
      IN /\ NormMinStay(fnIn.p) <= r - d
         /\ r - d <= NormMaxStay(fnIn.p)
         /\ d >= fnIn.p.earliestDeparture
         /\ r <= fnIn.p.latestDeparture

\* Pairs were emitted for a request whose maxStay is below one day.
C11_Witness ==
  /\ fnOut # None /\ ValidWindow(fnIn.p)
  /\ fnIn.p.maxStayDays < 1
  /\ Len(Val(fnOut)) >= 2

\* C12: never more than max_pairs pairs; none when max_pairs is 0 or the
\* window is inverted.
C12_AtMostMaxPairs ==
  fnOut # None =>
    /\ Len(Val(fnOut)) <= fnIn.max_pairs
    /\ fnIn.max_pairs = 0 => Val(fnOut) = <<>>
    /\ fnIn.p.earliestDeparture > fnIn.p.latestDeparture => Val(fnOut) = <<>>

\* The cap cut the list in the middle of the stays of a departure day.
C12_Witness ==
  /\ fnOut # None
  /\ fnIn.max_pairs = 3 /\ Len(Val(fnOut)) = 3
  /\ fnIn.p.minStayDays = 1 /\ fnIn.p.maxStayDays = 2
  /\ fnIn.p.earliestDeparture = 1 /\ fnIn.p.latestDeparture = MaxDay

\* All valid pairs of a window, and their order: by departure, then by stay.
ValidPairs(p) ==
  {<<d, d + s>> : <<d, s>> \in {ds \in (p.earliestDeparture..p.latestDeparture)
                                        \X (NormMinStay(p)..NormMaxStay(p)) :
                                   ds[1] + ds[2] <= p.latestDeparture}}

PairBefore(a, b) == a[1] < b[1] \/ (a[1] = b[1] /\ a[2] < b[2])

\* C13: the result is exactly the first min(max_pairs, N) of the N valid
\* pairs in the order by departure date, then by stay length (normalised),
\* no pair repeated; window 1..3 with minStay = maxStay = 2 gives <<1, 3>>.
C13_FirstPairsInOrder ==
  fnOut # None =>
    LET all == ValidPairs(fnIn.p)
        out == Val(fnOut)
    IN /\ Len(out) = Min(fnIn.max_pairs, Cardinality(all))
       /\ \A i \in 1..Len(out) :
            /\ out[i] \in all
            /\ Cardinality({q \in all : PairBefore(q, out[i])}) = i - 1
       /\ (fnIn.p = Window(1, 3, 2, 2) /\ fnIn.max_pairs >= 1) => out = << <<1, 3>> >>

\* A truncated enumeration: several departures and stays, fewer pairs
\* returned than are valid, and stays that had to be normalised.
C13_Witness ==
  /\ fnOut # None
  /\ fnIn.p.minStayDays = 0 /\ fnIn.p.maxStayDays = 2
  /\ Len(Val(fnOut)) = 4
  /\ Cardinality(ValidPairs(fnIn.p)) > 4
  /\ Val(fnOut)[3][1] = fnIn.p.earliestDeparture + 1

\* ---------------------------------------------- claims on the filters ----

\* Does the price ceiling of the request admit an option?
UnderCeiling(o, p) ==
  (~IsNone(p.maxPrice) /\ Val(p.maxPrice) > 0) => o.price <= Val(p.maxPrice)

\* C14: with a non-empty stops allow-list an option is kept exactly when its
\* stops are in the list, or 3 is in the list and it has 3 or more stops;
\* [3] accepts 3, 4, 5, ... and rejects 0, 1, 2; an empty or absent list
\* filters nothing.
C14_StopsAllowList ==
  fnOut # None =>
    LET sf == fnIn.p.stopsFilter
        kept == {Val(fnOut)[i].id : i \in 1..Len(Val(fnOut))}
        priced == {i \in 1..Len(fnIn.options) : UnderCeiling(fnIn.options[i], fnIn.p)}
    IN /\ Len(Val(fnOut)) = Cardinality(kept)
       /\ (IsNone(sf) \/ sf = Some({})) =>
            kept = {fnIn.options[i].id : i \in priced}
       /\ (~IsNone(sf) /\ sf # Some({})) =>
            kept = {fnIn.options[i].id :
                      i \in {j \in priced :
                               \/ fnIn.options[j].stops \in Val(sf)
                               \/ 3 \in Val(sf) /\ fnIn.options[j].stops >= 3}}
       /\ sf = Some({3}) =>
            \A i \in priced :
              fnIn.options[i].id \in kept <=> fnIn.options[i].stops \notin {0, 1, 2}

\* The list [3] kept flights of 3, 4 and 5 stops and dropped those of 0..2.
C14_Witness ==
  /\ fnOut # None
  /\ fnIn.p.stopsFilter = Some({3}) /\ IsNone(fnIn.p.maxPrice)
  /\ {fnIn.options[i].stops : i \in 1..Len(fnIn.options)} = 0..5
  /\ {Val(fnOut)[i].stops : i \in 1..Len(Val(fnOut))} = {3, 4, 5}

\* C15: a positive maxPrice below every mapped option gives an empty option
\* list with status "ok"; no returned option costs more than a positive
\* maxPrice; an absent or non-positive maxPrice removes nothing.
C15_PriceCeiling ==
  (pc = "done" /\ ~IsNone(ret) /\ core.collected_offers # <<>>) =>
    LET mapped == MapAll(core.collected_offers).options
        out == Val(ret).options
        mp == params.maxPrice
    IN IF ~IsNone(mp) /\ Val(mp) > 0
       THEN /\ \A i \in 1..Len(out) : out[i].price <= Val(mp)
            /\ (\A i \in 1..Len(mapped) : mapped[i].price > Val(mp)) =>
                 out = <<>> /\ Val(ret).status = "ok"
       ELSE /\ Len(out) = Len(mapped)
            /\ OptionIds(out) = OptionIds(mapped)

\* Offers of 450 and more were collected under maxPrice = 400: the search
\* returned "ok" with no option.
C15_Witness ==
  /\ pc = "done" /\ ~IsNone(ret)
  /\ params.maxPrice = Some(400)
  /\ Len(core.collected_offers) >= 3
  /\ Val(ret).status = "ok" /\ Val(ret).options = <<>>

\* ------------------------------------------------ claims on the tuning ----

\* C16: every client-supplied maxOffersPerPair, maxOffersTotal and
\* maxDatePairs (zero, negative and oversized ones too) resolves to
\* max(floor, min(value, hardCap)) with the ranges [10, 300], [100, 15000]
\* and [1, 60]; the search runs on with the resolved values.
C16_ClampedIntoRange ==
  (token /\ pc \notin {"idle", "core_start"}) =>
    /\ ~IsNone(params.maxOffersPerPair) =>
         core.max_offers_per_pair = Max(10, Min(Val(params.maxOffersPerPair), 300))
    /\ ~IsNone(params.maxOffersTotal) =>
         core.max_offers_total = Max(100, Min(Val(params.maxOffersTotal), 15000))
    /\ ~IsNone(params.maxDatePairs) =>
         core.max_date_pairs = Max(1, Min(Val(params.maxDatePairs), 60))

\* ---------------------------------------------- claims on the progress ----

InHook == pc \in {"hook_done_pairs", "hook_total_pairs", "hook_total_results"}

\* C17: at every call of the progress hook, pairsDone is the number of date
\* pairs processed so far (queried or skipped on a failure), pairsTotal the
\* number of generated pairs and offersCollected the number of offers
\* collected so far; so too at the last call, and for the done_pairs of the
\* returned result, when the loop stopped early on a budget.
C17_ProgressCounts ==
  /\ InHook =>
       /\ hook.done_pairs = Len(attempts)
       /\ hook.total_pairs = Len(core.date_pairs)
       /\ hook.collected = Len(core.collected_offers)
  /\ (~IsNone(ret) /\ ~IsNone(Val(ret).done_pairs)) =>
       Val(Val(ret).done_pairs) = Len(attempts)

\* ------------------------------------------- claims on the job's outcome --

\* C18: when an exception escaped run_search_core in a background job, the
\* job ends with status "failed", its error is the exception's message and
\* its result stays null; a job with status "completed" has a null error.
C18_FailedJob ==
  /\ (mode = "async" /\ pc = "done" /\ exc # None) =>
       /\ JobStatus = "failed"
       /\ JOBS[JobId].error = exc
       /\ JOBS[JobId].result = None
  /\ JobStatus = "completed" => JOBS[JobId].error = None

\* The mapping of an offer raised ValueError and the job recorded it, after
\* one pair had failed at the provider.
C18_Witness ==
  /\ mode = "async" /\ pc = "done"
  /\ JobStatus = "failed" /\ JOBS[JobId].error = Some("ValueError")
  /\ Len(attempts) = 2 /\ attempts[1].kind = "rejected"

\* C19: malformed offer data never aborts the mapping of an offer: with a
\* missing or unparsable price or timestamp map_duffel_offer_to_option still
\* returns an option, the duration being 0 for bad timestamps and the price a
\* default for a bad amount, and the search does not fail because of it.
C19_MalformedNeverAborts ==
  /\ \A i \in 1..Len(core.collected_offers) :
       LET c == core.collected_offers[i]
           m == map_duffel_offer_to_option(c.offer, c.dep, c.ret)
       IN /\ m.ok
          /\ (c.offer.dep_at = BadTs \/ c.offer.arr_at = BadTs) =>
               m.option.durationMinutes = 0
  /\ Returned => exc = None

\* C20: every job accepted by search_business_async eventually has status
\* "completed" or "failed", polled or not, given that the background task is
\* scheduled and every provider call returns or times out.
C20_JobEnds ==
  (JobId \in DOMAIN JOBS) ~> (JobStatus \in {"completed", "failed"})

\* A job completed after a failed pair and a pair with offers, while no poll
\* was ever started.
C20_Witness ==
  /\ mode = "async" /\ pc = "done" /\ JobStatus = "completed"
  /\ poll = Poll0
  /\ Len(attempts) = 2 /\ attempts[1].kind = "error"
  /\ core.collected_offers # <<>>

\* ------------------------------------------- claims on the final order ----

\* C21: the option list balance_airlines returns is sorted ascending by
\* price.
C21_SortedByPrice ==
  fnOut # None =>
    \A i, j \in 1..Len(Val(fnOut).out) :
      i < j => Val(fnOut).out[i].price <= Val(fnOut).out[j].price

\* Two airlines were picked in turns from an unsorted list, so the picks
\* were not in price order before the final sort.
C21_Witness ==
  /\ fnOut # None
  /\ Len(Val(fnOut).out) >= 4
  /\ Cardinality(KeysOf(Val(fnOut).out)) = 2
  /\ Val(fnOut).run.rr # Val(fnOut).out
  /\ \E i \in 1..(Len(Val(fnOut).run.rr) - 1) :
        Val(fnOut).run.rr[i].price > Val(fnOut).run.rr[i + 1].price

\* ---------------------------------------- claims on the round robin ----

\* The options of airline k a list holds, by id.
IdsOf(options, k) ==
  {options[r].id : r \in {q \in 1..Len(options) : GroupKey(options[q]) = k}}

\* Airlines that still have unselected options and are below the soft cap
\* when the round-robin phase ends.
StillOpen(input, rr, soft_cap) ==
  {k \in KeysOf(input) :
     CountOf(rr, k) < CountOf(input, k) /\ CountOf(rr, k) < soft_cap}

\* C22: when the round-robin phase ends because max_total was reached, the
\* numbers of options selected for any two airlines that both still have
\* unselected options and are below softCap differ by at most 1, and the
\* options selected for an airline are that airline's cheapest ones.
C22_RoundRobinFair ==
  (fnOut # None /\ fnIn.max_total > 0
     /\ Len(Val(fnOut).run.rr) = fnIn.max_total) =>
    LET rr == Val(fnOut).run.rr
        open == StillOpen(fnIn.options, rr, Val(fnOut).run.soft_cap)
    IN /\ \A a, b \in open : CountOf(rr, a) - CountOf(rr, b) <= 1
       /\ \A r \in 1..Len(rr) : \A i \in 1..Len(fnIn.options) :
            (GroupKey(fnIn.options[i]) = GroupKey(rr[r])
               /\ fnIn.options[i].id \notin IdsOf(rr, GroupKey(rr[r])))
            => rr[r].price <= fnIn.options[i].price

\* The phase stopped in the middle of a round: both airlines have options
\* left, and one has one pick more than the other.
C22_Witness ==
  /\ fnOut # None /\ fnIn.max_total > 0
  /\ Len(Val(fnOut).run.rr) = fnIn.max_total
  /\ Cardinality(StillOpen(fnIn.options, Val(fnOut).run.rr, Val(fnOut).run.soft_cap)) = 2
  /\ \E a, b \in KeysOf(fnIn.options) :
        CountOf(Val(fnOut).run.rr, a) = CountOf(Val(fnOut).run.rr, b) + 1

\* ------------------------------------ claims on the search's balancing ----

\* C23: run_search_core calls the balancer with max_total equal to the
\* number of options that passed the filters, and the returned list holds
\* every filtered option exactly once, whatever the airlines.
C23_NothingDropped ==
  (pc = "done" /\ ~IsNone(ret) /\ core.collected_offers # <<>>) =>
    LET filtered == apply_filters(MapAll(core.collected_offers).options, params)
        out == Val(ret).options
    IN /\ Min(core.max_offers_total, Len(filtered)) = Len(filtered)
       /\ Len(out) = Len(filtered)
       /\ \A i \in 1..Len(filtered) :
            Cardinality({r \in 1..Len(out) : out[r] = filtered[i]})
              = Cardinality({j \in 1..Len(filtered) : filtered[j] = filtered[i]})

\* One airline had more options than the soft cap lets the round robin
\* take, and all of them were returned.
C23_Witness ==
  /\ pc = "done" /\ ~IsNone(ret)
  /\ Len(Val(ret).options) = Len(core.collected_offers)
  /\ \E k \in KeysOf(Val(ret).options) :
        CountOf(Val(ret).options, k) > ClaimedSoftCap(Val(ret).options, Len(Val(ret).options))

\* ------------------------------------------ claims on the job's progress --

\* C24: in every state of a job record, also between the single field
\* writes of _update_job_progress and _search_job_runner, donePairs <=
\* totalPairs; donePairs never decreases over the life of the job; and no
\* poll observes more pairs done than total.
C24_DoneWithinTotal ==
  /\ [](JobId \in DOMAIN JOBS => JOBS[JobId].done_pairs <= JOBS[JobId].total_pairs)
  /\ [][(JobId \in DOMAIN JOBS /\ JobId \in DOMAIN JOBS')
          => JOBS[JobId].done_pairs <= JOBS'[JobId].done_pairs]_vars
  /\ [](poll.pc = "respond" => poll.done_pairs <= poll.total_pairs)

====
